---- MODULE Spec2Model ----
(***************************************************************************)
(* Model of shrpx::DownstreamConnectionPool                                *)
(* (src/src/shrpx_downstream_connection_pool.cc).                          *)
(*                                                                         *)
(* A connection is identified by its address; addresses are the integers   *)
(* 1..NConn and the container orders them as integers.  The null pointer   *)
(* is 0.  pool_ is the in-order content of the ordered associative         *)
(* container the pool keeps.  A caller drives the pool through its public  *)
(* member functions; every call is appended to hist together with what it  *)
(* found and what it did.                                                  *)
(***************************************************************************)
EXTENDS Integers, Sequences, FiniteSets, TLC

\* Number of connections the dialer has produced.
NConn == 3

\* Number of calls made on the pool in one run.
MaxOps == 5

Conn == 1..NConn

nullptr == 0

\* The pool, its caller and the call history; the execution contexts that
\* share one pool (thr, overlap); the evaluation of a function of util.h
\* (util).
VARIABLES pool_, held, destroys, hist, pc, thr, overlap, util

vars == <<pool_, held, destroys, hist, pc, thr, overlap, util>>

\* What the single-context pool leaves alone.
rest == <<thr, overlap, util>>

\* No execution context is inside a call.
NoThreads == <<>>

\* No function of util.h is being evaluated.
NoEval == [fn |-> "none"]

----------------------------------------------------------------------------
(* The container: an ordered set of pointers, kept as its in-order         *)
(* sequence.                                                               *)

Range(s) == {s[i] : i \in 1..Len(s)}

Count(s, c) == Cardinality({i \in 1..Len(s) : s[i] = c})

\* A container that keeps insertion order: c goes to the end.
InsertAppend(s, c) == Append(s, c)

\* Ordered insertion position: c goes after every element smaller than c.
InsertSorted(s, c) ==
  LET k == Cardinality({i \in 1..Len(s) : s[i] < c})
  IN  SubSeq(s, 1, k) \o <<c>> \o SubSeq(s, k + 1, Len(s))

\* A container that keeps equal keys (what std::multiset::insert does).
SetInsertMulti(s, c) == InsertSorted(s, c)

\* pool_.insert(p): a key already present is not inserted again.
SetInsert(s, c) == IF c \in Range(s) THEN s ELSE InsertSorted(s, c)

\* Erasing through an iterator that forgets to unlink the node.
EraseItKeep(s, i) == s

\* pool_.erase(it): unlinks the element at position i.
EraseIt(s, i) == SubSeq(s, 1, i - 1) \o SubSeq(s, i + 1, Len(s))

\* Erasing from the key to the end of the container.
EraseKeyTail(s, c) == SelectSeq(s, LAMBDA x : x < c)

\* Erasing by key that unlinks nothing.
EraseKeyKeep(s, c) == s

\* pool_.erase(key): unlinks every element equal to key.
EraseKey(s, c) == SelectSeq(s, LAMBDA x : x # c)

\* pool_.empty()
Empty(s) == Len(s) = 0

\* An iterator to the last element instead of the first.
BeginLast(s) == Len(s)

\* std::ranges::begin(pool_): position of the smallest element.
Begin(s) == 1

----------------------------------------------------------------------------
(* delete p.  destroys[c] counts how often the destructor of c has run.    *)

\* A delete expression that is skipped.
DeleteSkip(d, c) == d

\* delete dconn
Delete(d, c) == [d EXCEPT ![c] = @ + 1]

\* Deleting an object that is already destroyed is undefined behaviour.
DoubleDelete(d, c) == d[c] >= 1

RECURSIVE DeleteSeq(_, _)
\* The loop of remove_all run to its end: delete dconn for each element.
DeleteSeq(d, s) ==
  IF s = <<>> THEN d ELSE DeleteSeq(Delete(d, Head(s)), Tail(s))

RECURSIVE FirstDouble(_, _, _)
\* Index of the first element of s whose delete is a double delete, 0 if
\* the loop of remove_all meets none.
FirstDouble(d, s, i) ==
  IF i > Len(s) THEN 0
  ELSE IF DoubleDelete(d, s[i]) THEN i
  ELSE FirstDouble(Delete(d, s[i]), s, i + 1)

----------------------------------------------------------------------------
(* The member functions, as functions of the state they read.              *)

\* add_downstream_connection that never stores the pointer.
add_pool_drop(s, c) == s

\* add_downstream_connection: pool_.insert(dconn.release())
add_pool(s, c) == SetInsert(s, c)

\* Passing dconn.get(): the caller's handle keeps the pointer.
ReleaseKeep(h, c) == h

\* dconn.release(): the caller's handle gives up the pointer.
Release(h, c) == h \ {c}

\* pop_downstream_connection that reports an error on an empty pool.
pop_result_throw(s) ==
  IF Empty(s)
  THEN [ret |-> nullptr, status |-> "error", pool |-> s]
  ELSE [ret |-> s[Begin(s)], status |-> "value", pool |-> EraseIt(s, Begin(s))]

\* pop_downstream_connection that erases the last element, not the one it
\* returns.
pop_result_erase_last(s) ==
  IF Empty(s)
  THEN [ret |-> nullptr, status |-> "nullptr", pool |-> s]
  ELSE [ret |-> s[Begin(s)], status |-> "value", pool |-> EraseIt(s, Len(s))]

\* pop_downstream_connection: the returned pointer, how it is reported and
\* the container afterwards.
pop_result(s) ==
  IF Empty(s)
  THEN [ret |-> nullptr, status |-> "nullptr", pool |-> s]
  ELSE [ret |-> s[Begin(s)], status |-> "value", pool |-> EraseIt(s, Begin(s))]

\* remove_downstream_connection: the container after pool_.erase(dconn).
remove_pool(s, c) == EraseKey(s, c)

\* A clear() that is left out.
clear_keep(s) == s

\* pool_.clear()
clear(s) == <<>>

----------------------------------------------------------------------------

\* One entry of the call history: the call, what it returned and the state
\* it found and left.
Call(op, arg, ret, status) ==
  [op |-> op, arg |-> arg, ret |-> ret, status |-> status,
   pre |-> pool_, post |-> pool_',
   own |-> held, ownpost |-> held',
   dpre |-> destroys, dpost |-> destroys']

CanCall == pc = "live" /\ Len(hist) < MaxOps

Init ==
  /\ pool_ = <<>>
  /\ held = Conn
  /\ destroys = [c \in Conn |-> 0]
  /\ hist = <<>>
  /\ pc = "live"
  /\ thr = NoThreads
  /\ overlap = FALSE
  /\ util = NoEval

\* add_downstream_connection(std::unique_ptr<DownstreamConnection> dconn)
add_downstream_connection(c) ==
  /\ CanCall
  /\ pool_' = add_pool(pool_, c)
  /\ held' = Release(held, c)
  /\ UNCHANGED <<destroys, pc, rest>>
  /\ hist' = Append(hist, Call("add", c, nullptr, "void"))

\* pop_downstream_connection()
pop_downstream_connection ==
  /\ CanCall
  /\ UNCHANGED <<destroys, pc, rest>>
  /\ LET r == pop_result(pool_)
     IN  /\ pool_' = r.pool
         /\ held' = IF r.ret = nullptr THEN held ELSE held \cup {r.ret}
         /\ hist' = Append(hist, Call("pop", nullptr, r.ret, r.status))

\* remove_downstream_connection(DownstreamConnection *dconn).  Deleting a
\* connection that is already destroyed is undefined: the destructor runs
\* again, or the process aborts in the allocator.
remove_downstream_connection(c) ==
  /\ CanCall
  /\ pool_' = remove_pool(pool_, c)
  /\ UNCHANGED <<held, rest>>
  /\ \/ /\ destroys' = Delete(destroys, c)
        /\ hist' = Append(hist, Call("remove", c, nullptr, "void"))
        /\ UNCHANGED pc
     \/ /\ DoubleDelete(destroys, c)
        /\ UNCHANGED destroys
        /\ hist' = Append(hist, Call("remove", c, nullptr, "abort"))
        /\ pc' = "aborted"

\* The body of remove_all, which the destructor runs too.  The loop either
\* runs to its end and the container is cleared, or the process aborts at
\* the first delete of an already destroyed connection.
RemoveAllBody(op, next) ==
  LET k == FirstDouble(destroys, pool_, 1)
  IN  \/ /\ destroys' = DeleteSeq(destroys, pool_)
         /\ pool_' = clear(pool_)
         /\ hist' = Append(hist, Call(op, nullptr, nullptr, "void"))
         /\ pc' = next
      \/ /\ k > 0
         /\ destroys' = DeleteSeq(destroys, SubSeq(pool_, 1, k - 1))
         /\ UNCHANGED pool_
         /\ hist' = Append(hist, Call(op, nullptr, nullptr, "abort"))
         /\ pc' = "aborted"

\* remove_all()
remove_all ==
  /\ CanCall
  /\ UNCHANGED <<held, rest>>
  /\ RemoveAllBody("remove_all", "live")

\* A destructor with an empty body: the pool goes away, its members stay.
destructor_leak ==
  /\ CanCall
  /\ UNCHANGED <<held, pool_, destroys, rest>>
  /\ pc' = "destructed"
  /\ hist' = Append(hist, Call("dtor", nullptr, nullptr, "void"))

\* ~DownstreamConnectionPool()
destructor ==
  /\ CanCall
  /\ UNCHANGED <<held, rest>>
  /\ RemoveAllBody("dtor", "destructed")

Next ==
  \/ \E c \in Conn : add_downstream_connection(c)
  \/ pop_downstream_connection
  \/ \E c \in Conn : remove_downstream_connection(c)
  \/ remove_all
  \/ destructor

Spec == Init /\ [][Next]_vars

----------------------------------------------------------------------------

TypeOK ==
  /\ pool_ \in Seq(Conn)
  /\ held \subseteq Conn
  /\ destroys \in [Conn -> 0..MaxOps]
  /\ Len(hist) <= MaxOps
  /\ pc \in {"live", "destructed", "aborted"}

----------------------------------------------------------------------------
(* One pool instance shared by two execution contexts.  The pool has no    *)
(* lock, so the statements of pop_downstream_connection of one context     *)
(* interleave with those of the other: the test of pool_.empty(), the read *)
(* of *begin(pool_) into the owning handle, and the erase with the return. *)

Thread == {1, 2}

\* Number of take() calls one context makes.
MaxTakes == 2

RECURSIVE PoolOf(_)
\* The container after the connections of S were inserted.
PoolOf(S) ==
  IF S = {} THEN <<>>
  ELSE LET x == CHOOSE y \in S : TRUE
       IN  add_pool(PoolOf(S \ {x}), x)

\* Position of c in the container.
IndexOf(s, c) == CHOOSE i \in 1..Len(s) : s[i] = c

\* Another context is inside pop_downstream_connection.
OtherBusy(t) == \E o \in Thread \ {t} : thr[o].pc \in {"read", "erase"}

InitShared ==
  /\ \E S \in SUBSET Conn :
       /\ pool_ = PoolOf(S)
       /\ held = Conn \ S
  /\ destroys = [c \in Conn |-> 0]
  /\ hist = <<>>
  /\ pc = "live"
  /\ thr = [t \in Thread |->
              [pc |-> "idle", dconn |-> nullptr, res |-> <<>>, n |-> 0]]
  /\ overlap = FALSE
  /\ util = NoEval

\* if (pool_.empty()) { return nullptr; }
take_check(t) ==
  /\ pc = "live"
  /\ thr[t].pc = "idle"
  /\ thr[t].n < MaxTakes
  /\ thr' = IF Empty(pool_)
            THEN [thr EXCEPT ![t].res = Append(@, nullptr), ![t].n = @ + 1]
            ELSE [thr EXCEPT ![t].pc = "read", ![t].n = @ + 1]
  /\ overlap' = (overlap \/ OtherBusy(t))
  /\ UNCHANGED <<pool_, held, destroys, hist, pc, util>>

\* auto it = begin(pool_); auto dconn = unique_ptr(*it).  When the other
\* context has emptied the pool since the test, it is end() and reading
\* through it is undefined: the process crashes or some pointer is read.
take_read(t) ==
  /\ pc = "live"
  /\ thr[t].pc = "read"
  /\ overlap' = (overlap \/ OtherBusy(t))
  /\ UNCHANGED <<pool_, held, destroys, hist, util>>
  /\ \/ /\ ~Empty(pool_)
        /\ thr' = [thr EXCEPT ![t].pc = "erase",
                              ![t].dconn = pool_[Begin(pool_)]]
        /\ UNCHANGED pc
     \/ /\ Empty(pool_)
        /\ \E g \in Conn :
             thr' = [thr EXCEPT ![t].pc = "erase", ![t].dconn = g]
        /\ UNCHANGED pc
     \/ /\ Empty(pool_)
        /\ pc' = "aborted"
        /\ UNCHANGED thr

\* pool_.erase(it); return dconn.  When the other context has erased the
\* element already, the iterator is invalid and the erase is undefined: it
\* has no effect or the process crashes.
take_erase(t) ==
  /\ pc = "live"
  /\ thr[t].pc = "erase"
  /\ overlap' = (overlap \/ OtherBusy(t))
  /\ UNCHANGED <<destroys, hist, util>>
  /\ \/ /\ thr[t].dconn \in Range(pool_)
        /\ pool_' = EraseIt(pool_, IndexOf(pool_, thr[t].dconn))
        /\ held' = held \cup {thr[t].dconn}
        /\ thr' = [thr EXCEPT ![t].pc = "idle", ![t].dconn = nullptr,
                              ![t].res = Append(@, thr[t].dconn)]
        /\ UNCHANGED pc
     \/ /\ thr[t].dconn \notin Range(pool_)
        /\ held' = held \cup {thr[t].dconn}
        /\ thr' = [thr EXCEPT ![t].pc = "idle", ![t].dconn = nullptr,
                              ![t].res = Append(@, thr[t].dconn)]
        /\ UNCHANGED <<pool_, pc>>
     \/ /\ thr[t].dconn \notin Range(pool_)
        /\ pc' = "aborted"
        /\ UNCHANGED <<pool_, held, thr>>

NextShared ==
  \/ \E t \in Thread : take_check(t)
  \/ \E t \in Thread : take_read(t)
  \/ \E t \in Thread : take_erase(t)

SpecShared == InitShared /\ [][NextShared]_vars

----------------------------------------------------------------------------
(* Functions of util.h.  A char is a signed byte, a string is the sequence *)
(* of its chars, given by their codes.                                     *)

Char == -128..127

\* static_cast<uint8_t>(c)
ToUint8(c) == c % 256

\* The conversion of a uint8_t to char where a function takes a char.
ToChar(u) == IF u >= 128 THEN u - 256 ELSE u

is_alpha(c) == (65 <= c /\ c <= 90) \/ (97 <= c /\ c <= 122)

is_digit(c) == 48 <= c /\ c <= 57

is_hex_digit(c) ==
  is_digit(c) \/ (65 <= c /\ c <= 70) \/ (97 <= c /\ c <= 102)

\* '!' '#' '$' '%' '&' '\'' '*' '+' '-' '.' '^' '_' '`' '|' '~', letters and
\* digits.
in_token(c) ==
  \/ c \in {33, 35, 36, 37, 38, 39, 42, 43, 45, 46, 94, 95, 96, 124, 126}
  \/ is_alpha(c)
  \/ is_digit(c)

\* std::ranges::fill(tbl, 256)
FillTbl == [i \in 0..255 |-> 256]

\* for (char i = lo; i <= hi; ++i) tbl[static_cast<uint8_t>(i)] = i - lo + add
TblLoop(tbl, lo, hi, add) ==
  [i \in 0..255 |-> IF lo <= i /\ i <= hi THEN i - lo + add ELSE tbl[i]]

\* The table without the loop over 'a'..'f'.
hex_to_uint_tbl_upper_only ==
  TblLoop(TblLoop(FillTbl, 48, 57, 0), 65, 70, 10)

hex_to_uint_tbl ==
  TblLoop(TblLoop(TblLoop(FillTbl, 48, 57, 0), 65, 70, 10), 97, 102, 10)

hex_to_uint(c) == hex_to_uint_tbl[ToUint8(c)]

\* "0123456789ABCDEF"
UPPER_XDIGITS ==
  <<48, 49, 50, 51, 52, 53, 54, 55, 56, 57, 65, 66, 67, 68, 69, 70>>

\* What percent_encode_token writes for one char of its input.
EncodeChar(ch) ==
  LET c == ToUint8(ch)
  IN  IF c # 37 /\ in_token(ToChar(c))
      THEN <<c>>
      ELSE <<37, UPPER_XDIGITS[(c \div 16) + 1], UPPER_XDIGITS[(c % 16) + 1]>>

RECURSIVE percent_encode_token(_)
\* The bytes percent_encode_token writes to result.
percent_encode_token(r) ==
  IF r = <<>> THEN <<>>
  ELSE EncodeChar(Head(r)) \o percent_encode_token(Tail(r))

RECURSIVE percent_encode_tokenlen_pct(_)
\* A length that takes '%' for a character that is copied.
percent_encode_tokenlen_pct(r) ==
  IF r = <<>> THEN 0
  ELSE (IF in_token(Head(r)) THEN 1 ELSE 3)
       + percent_encode_tokenlen_pct(Tail(r))

RECURSIVE percent_encode_tokenlen(_)
percent_encode_tokenlen(r) ==
  IF r = <<>> THEN 0
  ELSE (IF Head(r) # 37 /\ in_token(Head(r)) THEN 1 ELSE 3)
       + percent_encode_tokenlen(Tail(r))

RECURSIVE utos_digits(_)
\* The second loop of utos: the digits of n, the last one stored first.
utos_digits(n) ==
  IF n = 0 THEN <<>> ELSE Append(utos_digits(n \div 10), (n % 10) + 48)

utos(n) == IF n = 0 THEN <<48>> ELSE utos_digits(n)

\* Whether host is a numeric IPv6 address; the sampled hosts are one exactly
\* when they contain a colon.
ipv6_numeric_addr(host) == \E i \in 1..Len(host) : host[i] = 58

make_hostport(host, port) ==
  LET ipv6 == ipv6_numeric_addr(host)
  IN  (IF ipv6 THEN <<91>> ELSE <<>>) \o host
      \o (IF ipv6 THEN <<93>> ELSE <<>>) \o <<58>> \o utos(port)

\* The test written with || : it is true of every port.
make_http_hostport_or(host, port) ==
  IF port # 80 \/ port # 443
  THEN make_hostport(host, port)
  ELSE LET ipv6 == ipv6_numeric_addr(host)
       IN  (IF ipv6 THEN <<91>> ELSE <<>>) \o host
           \o (IF ipv6 THEN <<93>> ELSE <<>>)

make_http_hostport(host, port) ==
  IF port # 80 /\ port # 443
  THEN make_hostport(host, port)
  ELSE LET ipv6 == ipv6_numeric_addr(host)
       IN  (IF ipv6 THEN <<91>> ELSE <<>>) \o host
           \o (IF ipv6 THEN <<93>> ELSE <<>>)

\* Longest input string of percent_encode_token.
MaxStrLen == 3

\* The chars the input strings are made of: '%', '!', ' ', 'a', '0', NUL and
\* a byte above 127.
SampleChars == {37, 33, 32, 97, 48, 0, -56}

RECURSIVE StringsUpTo(_)
StringsUpTo(n) ==
  IF n = 0 THEN {<<>>}
  ELSE LET S == StringsUpTo(n - 1)
       IN  S \cup {Append(r, c) : r \in S, c \in SampleChars}

\* "::1", "fe80::1", "a", "10.0.0.1" and the empty host.
SampleHosts ==
  {<<58, 58, 49>>, <<102, 101, 56, 48, 58, 58, 49>>, <<97>>,
   <<49, 48, 46, 48, 46, 48, 46, 49>>, <<>>}

\* uint16_t ports, the two special ones among them.
SamplePorts == {0, 7, 80, 81, 443, 800, 3000, 4430, 8080, 65535}

Eval(fn, ch, str, port) ==
  [fn |-> fn, ch |-> ch, str |-> str, port |-> port,
   out |-> <<>>, aux |-> <<>>, n |-> 0, done |-> FALSE]

InitUtil ==
  /\ pool_ = <<>>
  /\ held = Conn
  /\ destroys = [c \in Conn |-> 0]
  /\ hist = <<>>
  /\ pc = "live"
  /\ thr = NoThreads
  /\ overlap = FALSE
  /\ \/ \E c \in Char : util = Eval("hex", c, <<>>, 0)
     \/ \E r \in StringsUpTo(MaxStrLen) : util = Eval("encode", 0, r, 0)
     \/ \E h \in SampleHosts : \E p \in SamplePorts :
          util = Eval("hostport", 0, h, p)

\* hex_to_uint(c)
call_hex_to_uint ==
  /\ util.fn = "hex" /\ ~util.done
  /\ util' = [util EXCEPT !.n = hex_to_uint(util.ch), !.done = TRUE]
  /\ UNCHANGED <<pool_, held, destroys, hist, pc, thr, overlap>>

\* percent_encode_token(r, out) and percent_encode_tokenlen(r)
call_percent_encode_token ==
  /\ util.fn = "encode" /\ ~util.done
  /\ util' = [util EXCEPT !.out = percent_encode_token(util.str),
                          !.n = percent_encode_tokenlen(util.str),
                          !.done = TRUE]
  /\ UNCHANGED <<pool_, held, destroys, hist, pc, thr, overlap>>

\* make_http_hostport(first, host, port) and make_hostport(first, host, port)
call_make_http_hostport ==
  /\ util.fn = "hostport" /\ ~util.done
  /\ util' = [util EXCEPT !.out = make_http_hostport(util.str, util.port),
                          !.aux = make_hostport(util.str, util.port),
                          !.done = TRUE]
  /\ UNCHANGED <<pool_, held, destroys, hist, pc, thr, overlap>>

NextUtil ==
  \/ call_hex_to_uint
  \/ call_percent_encode_token
  \/ call_make_http_hostport

SpecUtil == InitUtil /\ [][NextUtil]_vars

----------------------------------------------------------------------------
(* Reading the call history.  hist only grows and every prefix of it is    *)
(* the history of an earlier state, so a property of a call sequence is    *)
(* stated for the sequences that end with the most recent call.            *)

Calls == 1..Len(hist)

Last == Len(hist)

\* How often call i ran the destructor of c.
DestroyedBy(i, c) == hist[i].dpost[c] - hist[i].dpre[c]

\* Call i is add_downstream_connection with an owning handle to a live
\* connection.
ValidAdd(i) ==
  /\ hist[i].op = "add"
  /\ hist[i].arg \in hist[i].own
  /\ hist[i].dpre[hist[i].arg] = 0

\* Calls i..i+n-1 insert n distinct valid handles, starting from an empty
\* pool.
AddRun(i, n) ==
  /\ n >= 1
  /\ i >= 1
  /\ i + n - 1 <= Len(hist)
  /\ hist[i].pre = <<>>
  /\ \A m \in i..(i + n - 1) : ValidAdd(m)
  /\ \A m1, m2 \in i..(i + n - 1) : m1 # m2 => hist[m1].arg # hist[m2].arg

AddRunArgs(i, n) == {hist[m].arg : m \in i..(i + n - 1)}

\* Calls i..j are all pop_downstream_connection.
PopRun(i, j) == \A m \in i..j : hist[m].op = "pop"

----------------------------------------------------------------------------

\* C1: every live connection is owned by exactly one party, the pool (it is
\* in pool_) or the caller (it holds the owning handle): never both, never
\* neither.
C1_ExclusiveCustody ==
  \A c \in Conn :
    destroys[c] = 0 => ((c \in Range(pool_)) # (c \in held))

\* A connection has been taken back by the caller while another is pooled
\* and a third has been removed.
C1_Witness ==
  /\ \E i \in Calls : hist[i].op = "pop" /\ hist[i].ret # nullptr
                      /\ hist[i].ret \in held /\ destroys[hist[i].ret] = 0
  /\ \E c \in Conn : c \in Range(pool_) /\ destroys[c] = 0
  /\ \E i \in Calls : hist[i].op = "remove"

\* C2: insert(c); remove(c) leaves the pool without c and destroys c once;
\* a second remove(c) reports "not found" and does not destroy c again.
C2_SecondRemoveNotFound ==
  (/\ Last >= 3
   /\ ValidAdd(Last - 2)
   /\ hist[Last - 1].op = "remove" /\ hist[Last - 1].arg = hist[Last - 2].arg
   /\ hist[Last].op = "remove" /\ hist[Last].arg = hist[Last - 2].arg)
  => /\ hist[Last - 2].arg \notin Range(hist[Last - 1].post)
     /\ DestroyedBy(Last - 1, hist[Last - 2].arg) = 1
     /\ hist[Last].status = "not_found"
     /\ DestroyedBy(Last, hist[Last - 2].arg) = 0

\* C3: remove of a live connection that is not a pool member (the caller
\* holds it) reports "not found", destroys nothing and leaves the membership
\* unchanged.
C3_RemoveNonMemberRejected ==
  (/\ Last >= 1
   /\ hist[Last].op = "remove"
   /\ hist[Last].arg \notin Range(hist[Last].pre)
   /\ hist[Last].arg \in hist[Last].own
   /\ hist[Last].dpre[hist[Last].arg] = 0)
  => /\ hist[Last].status = "not_found"
     /\ hist[Last].dpost = hist[Last].dpre
     /\ hist[Last].post = hist[Last].pre

\* C4: insert(c) on an empty pool followed at once by take() returns c, not
\* destroyed, and the pool is empty again.
C4_InsertThenTake ==
  (/\ Last >= 2
   /\ hist[Last].op = "pop"
   /\ AddRun(Last - 1, 1))
  => /\ hist[Last].ret = hist[Last - 1].arg
     /\ hist[Last].status = "value"
     /\ hist[Last].post = <<>>
     /\ pool_ = <<>>
     /\ hist[Last - 1].arg \in held
     /\ destroys[hist[Last - 1].arg] = 0

C4_Witness ==
  /\ Last = 2
  /\ AddRun(1, 1)
  /\ hist[2].op = "pop"
  /\ hist[2].ret = hist[1].arg
  /\ pool_ = <<>>

\* C5: take() on an empty pool returns nullptr, signals no error, destroys
\* nothing and leaves the pool empty.
C5_TakeFromEmpty ==
  (/\ Last >= 1
   /\ hist[Last].op = "pop"
   /\ hist[Last].pre = <<>>)
  => /\ hist[Last].ret = nullptr
     /\ hist[Last].status = "nullptr"
     /\ hist[Last].dpost = hist[Last].dpre
     /\ hist[Last].ownpost = hist[Last].own
     /\ pool_ = <<>>

\* take() on the fresh pool, and on a pool emptied by a take, a remove or
\* remove_all.
C5_Witness ==
  /\ Last >= 3
  /\ hist[1].op = "pop" /\ hist[1].ret = nullptr
  /\ hist[Last - 1].pre # <<>> /\ hist[Last - 1].post = <<>>
  /\ hist[Last - 1].op \in {"pop", "remove", "remove_all"}
  /\ hist[Last].op = "pop" /\ hist[Last].ret = nullptr

\* C6: remove_all after k distinct handles were inserted, with no take or
\* remove in between, empties the pool and destroys exactly those k
\* connections, each once.
C6_RemoveAllDestroysEach ==
  \A k \in 1..NConn :
    (/\ Last >= k + 1
     /\ hist[Last].op = "remove_all"
     /\ AddRun(Last - k, k))
    => /\ pool_ = <<>>
       /\ hist[Last].status = "void"
       /\ \A c \in Conn :
            /\ DestroyedBy(Last, c) =
                 IF c \in AddRunArgs(Last - k, k) THEN 1 ELSE 0
            /\ c \in AddRunArgs(Last - k, k) => destroys[c] = 1

C6_Witness ==
  /\ Last = 3
  /\ AddRun(1, 2)
  /\ hist[3].op = "remove_all"
  /\ pool_ = <<>>
  /\ \E c \in Conn : destroys[c] = 0

\* C7: after N distinct handles are inserted into an empty pool, each of the
\* next N take() calls returns one of them that no earlier take returned,
\* and take number N+1 returns nullptr.
C7_DrainingOrder ==
  \A n \in 1..NConn : \A m \in 1..(n + 1) :
    (/\ Last >= n + m
     /\ hist[Last].op = "pop"
     /\ PopRun(Last - m + 1, Last)
     /\ AddRun(Last - m - n + 1, n))
    => IF m <= n
       THEN /\ hist[Last].ret \in AddRunArgs(Last - m - n + 1, n)
            /\ hist[Last].status = "value"
            /\ \A e \in (Last - m + 1)..(Last - 1) :
                 hist[e].ret # hist[Last].ret
       ELSE /\ hist[Last].ret = nullptr
            /\ hist[Last].status = "nullptr"

\* insert(A); insert(B); take(); take(); take()
C7_Witness ==
  /\ Last = 5
  /\ AddRun(1, 2)
  /\ PopRun(3, 5)
  /\ {hist[3].ret, hist[4].ret} = AddRunArgs(1, 2)
  /\ hist[5].ret = nullptr

\* C8: after insert(A); remove(A), take() returns nullptr; and once
\* remove(A) has been applied to member A no later take() returns A unless A
\* is inserted again in between.
C8_RemovedNeverReappears ==
  /\ (/\ Last >= 3
      /\ hist[Last].op = "pop"
      /\ hist[Last - 1].op = "remove"
      /\ AddRun(Last - 2, 1)
      /\ hist[Last - 1].arg = hist[Last - 2].arg)
     => hist[Last].ret = nullptr /\ hist[Last].status = "nullptr"
  /\ (Last >= 1 /\ hist[Last].op = "pop" /\ hist[Last].ret # nullptr)
     => \A i \in 1..(Last - 1) :
          (/\ hist[i].op = "remove"
           /\ hist[i].arg = hist[Last].ret
           /\ hist[i].arg \in Range(hist[i].pre))
          => \E k \in (i + 1)..(Last - 1) :
               hist[k].op = "add" /\ hist[k].arg = hist[i].arg

\* A is removed while another connection stays pooled, and a later take
\* returns that other connection; and insert(A); remove(A); take().
C8_Witness ==
  \/ \E i \in 1..(Last - 1) :
       /\ hist[i].op = "remove"
       /\ hist[i].arg \in Range(hist[i].pre)
       /\ Len(hist[i].pre) >= 2
       /\ hist[Last].op = "pop"
       /\ hist[Last].ret # nullptr
       /\ \A k \in (i + 1)..(Last - 1) : hist[k].op # "add"
  \/ /\ Last >= 3
     /\ AddRun(Last - 2, 1)
     /\ hist[Last - 1].op = "remove" /\ hist[Last - 1].arg = hist[Last - 2].arg
     /\ hist[Last].op = "pop" /\ hist[Last].ret = nullptr

\* C9: N distinct handles inserted into an empty pool with no take in
\* between make the membership exactly that set, of size N and without
\* duplicates; each insert of a non-member grows the membership by one.
C9_MembershipAfterInserts ==
  /\ \A n \in 1..NConn :
       (Last >= n /\ hist[Last].op = "add" /\ AddRun(Last - n + 1, n))
       => /\ Len(pool_) = n
          /\ Range(pool_) = AddRunArgs(Last - n + 1, n)
          /\ \A c \in Conn : Count(pool_, c) <= 1
  /\ (/\ Last >= 1
      /\ hist[Last].op = "add"
      /\ hist[Last].arg \notin Range(hist[Last].pre))
     => /\ Len(pool_) = Len(hist[Last].pre) + 1
        /\ Range(pool_) = Range(hist[Last].pre) \cup {hist[Last].arg}

C9_Witness ==
  /\ Last = NConn
  /\ AddRun(1, NConn)
  /\ Len(pool_) = NConn

\* C10: a connection handle appears in the pool at most once, also after
\* the same handle has been inserted twice.
C10_Uniqueness ==
  \A c \in Conn : Count(pool_, c) <= 1

\* The handle inserted by the last call was already a member.
C10_Witness ==
  /\ Last >= 2
  /\ hist[Last].op = "add"
  /\ hist[Last].arg \in Range(hist[Last].pre)
  /\ hist[Last].arg \in Range(pool_)

\* C11: insert(c) of a handle that is already a pool member is rejected with
\* a distinct failure outcome and leaves the membership unchanged, with c
\* present exactly once.
C11_DoubleInsertRejected ==
  (/\ Last >= 1
   /\ hist[Last].op = "add"
   /\ hist[Last].arg \in Range(hist[Last].pre))
  => /\ hist[Last].status = "rejected"
     /\ pool_ = hist[Last].pre
     /\ Count(pool_, hist[Last].arg) = 1

\* Smallest element of a non-empty set of addresses.
MinOf(S) == CHOOSE x \in S : \A y \in S : x <= y

\* C12: take() returns the member smallest in address order, so what it
\* returns depends on the membership only, not on the order of the inserts.
C12_TakeReturnsSmallest ==
  (/\ Last >= 1
   /\ hist[Last].op = "pop"
   /\ hist[Last].pre # <<>>)
  => hist[Last].ret = MinOf(Range(hist[Last].pre))

\* The larger handle was inserted first, the smaller second, and take()
\* returned the smaller.
C12_Witness ==
  /\ Last >= 3
  /\ hist[Last].op = "pop"
  /\ hist[Last - 1].op = "add"
  /\ hist[Last - 2].op = "add"
  /\ hist[Last - 2].arg > hist[Last - 1].arg
  /\ hist[Last].ret = hist[Last - 1].arg
  /\ Len(hist[Last].pre) >= 2

\* C13: a take() on a non-empty pool removes exactly the returned handle and
\* hands it to the caller: every other member stays pooled and nothing is
\* destroyed.
C13_TakeFrame ==
  (/\ Last >= 1
   /\ hist[Last].op = "pop"
   /\ hist[Last].pre # <<>>)
  => /\ hist[Last].status = "value"
     /\ hist[Last].ret \in Range(hist[Last].pre)
     /\ Range(pool_) = Range(hist[Last].pre) \ {hist[Last].ret}
     /\ Len(pool_) = Len(hist[Last].pre) - 1
     /\ held = hist[Last].own \cup {hist[Last].ret}
     /\ destroys = hist[Last].dpre

C13_Witness ==
  /\ Last >= 1
  /\ hist[Last].op = "pop"
  /\ Len(hist[Last].pre) >= 2
  /\ hist[Last].ret \in held
  /\ pool_ # <<>>

\* C14: the destructor destroys every connection that is a pool member at
\* that moment, each once, and no connection that a caller has taken.
C14_TeardownDestroysMembers ==
  (/\ Last >= 1
   /\ hist[Last].op = "dtor"
   /\ \A c \in Range(hist[Last].pre) : hist[Last].dpre[c] = 0)
  => /\ hist[Last].status = "void"
     /\ pc = "destructed"
     /\ \A c \in Conn :
          DestroyedBy(Last, c) = IF c \in Range(hist[Last].pre) THEN 1 ELSE 0
     /\ \A c \in Range(hist[Last].pre) : destroys[c] = 1
     /\ \A i \in 1..(Last - 1) :
          (hist[i].op = "pop" /\ hist[i].ret \in held
           /\ hist[i].ret \notin Range(hist[Last].pre))
          => DestroyedBy(Last, hist[i].ret) = 0

\* Teardown of a pool with two members while the caller holds a connection
\* it took before.
C14_Witness ==
  /\ Last >= 2
  /\ hist[Last].op = "dtor"
  /\ Len(hist[Last].pre) >= 2
  /\ \A c \in Range(hist[Last].pre) : destroys[c] = 1
  /\ \E i \in 1..(Last - 1) :
       /\ hist[i].op = "pop"
       /\ hist[i].ret \in held
       /\ destroys[hist[i].ret] = 0

\* In every call so far remove was applied to a member and insert was given
\* a handle to a live connection.
WellBehaved ==
  \A i \in Calls :
    /\ hist[i].op = "remove" => hist[i].arg \in Range(hist[i].pre)
    /\ hist[i].op = "add" => hist[i].dpre[hist[i].arg] = 0

Inserted == {hist[i].arg : i \in {j \in Calls : hist[j].op = "add"}}

\* C19: after a sequence of calls in which remove is applied to members
\* only, ended by the teardown of the pool, every connection ever inserted
\* is held by the caller or has been destroyed exactly once; none is
\* destroyed twice and none is left unowned and undestroyed.
C19_NoDoubleDestroyNoLeak ==
  (/\ Last >= 1
   /\ hist[Last].op = "dtor"
   /\ WellBehaved)
  => /\ hist[Last].status = "void"
     /\ \A c \in Conn : destroys[c] <= 1
     /\ \A c \in Inserted :
          \/ c \in held /\ destroys[c] = 0
          \/ c \notin held /\ destroys[c] = 1
     /\ \A c \in Conn : c \in held \/ destroys[c] = 1

\* A teardown after inserts, a take and a remove: one inserted connection is
\* back with the caller, one was destroyed by the remove, and the teardown
\* ends the run.
C19_Witness ==
  /\ hist # <<>>
  /\ hist[Last].op = "dtor"
  /\ WellBehaved
  /\ \E i \in Calls : hist[i].op = "remove" /\ destroys[hist[i].arg] = 1
  /\ \E i \in Calls : hist[i].op = "pop" /\ hist[i].ret \in held
                      /\ hist[i].ret \in Inserted

\* C20: a remove_all, or the destructor, that follows a remove_all finds the
\* pool empty, destroys nothing and leaves the pool empty.
C20_RemoveAllIdempotent ==
  (/\ Last >= 2
   /\ hist[Last].op \in {"remove_all", "dtor"}
   /\ hist[Last - 1].op = "remove_all"
   /\ hist[Last - 1].status = "void")
  => /\ hist[Last].pre = <<>>
     /\ hist[Last].status = "void"
     /\ destroys = hist[Last].dpre
     /\ pool_ = <<>>

\* The first remove_all destroyed two members; a second remove_all and then
\* the destructor follow.
C20_Witness ==
  /\ Last >= 3
  /\ hist[Last].op = "dtor"
  /\ hist[Last - 1].op = "remove_all"
  /\ hist[Last - 2].op = "remove_all"
  /\ Len(hist[Last - 2].pre) >= 2
  /\ destroys = hist[Last - 2].dpost

----------------------------------------------------------------------------
(* The shared pool.                                                        *)

\* The connections context t owns: those its takes returned and the one in
\* the owning handle of the take it is in.
Owned(t) ==
  ({thr[t].res[i] : i \in 1..Len(thr[t].res)} \cup
   (IF thr[t].pc = "erase" THEN {thr[t].dconn} ELSE {})) \ {nullptr}

\* The pointers returned to context t that are not null.
Got(t) == SelectSeq(thr[t].res, LAMBDA x : x # nullptr)

\* C15: when two contexts take from one shared pool, no connection is ever
\* owned by both, however the steps of pop_downstream_connection interleave;
\* of two takes on a pool of one connection, one obtains it and the other
\* gets nullptr.
C15_ConcurrentTakesExclusive ==
  /\ \A c \in Conn : ~(c \in Owned(1) /\ c \in Owned(2))
  /\ (/\ pool_ = <<>>
      /\ thr[1].pc = "idle" /\ thr[2].pc = "idle"
      /\ thr[1].n = 1 /\ thr[2].n = 1
      /\ Owned(1) \cup Owned(2) # {})
     => Len(Got(1)) + Len(Got(2)) = Cardinality(Owned(1) \cup Owned(2))

\* C15 as amended: as long as the calls of the two contexts have not
\* overlapped, no connection is owned by both contexts or returned twice,
\* what was returned has left the pool, and of two takes on a pool of one
\* connection exactly one obtains it and the other gets nullptr.
C15_SerialTakesExclusive ==
  ~overlap =>
    /\ pc = "live"
    /\ \A c \in Conn : ~(c \in Owned(1) /\ c \in Owned(2))
    /\ \A t \in Thread : \A c \in Conn : Count(thr[t].res, c) <= 1
    /\ \A t \in Thread : \A c \in Range(Got(t)) :
         c \in held /\ c \notin Range(pool_)
    /\ \A t \in Thread : nullptr \in Range(thr[t].res) => pool_ = <<>>
    /\ (/\ pool_ = <<>>
        /\ Len(thr[1].res) = 1 /\ Len(thr[2].res) = 1
        /\ Cardinality(Owned(1) \cup Owned(2)) = 1)
       => \E c \in Conn :
            \/ thr[1].res = <<c>> /\ thr[2].res = <<nullptr>>
            \/ thr[1].res = <<nullptr>> /\ thr[2].res = <<c>>

\* Two takes that did not overlap on a pool of one connection: one context
\* has the connection, the other got nullptr.
C15_Witness ==
  /\ ~overlap
  /\ pool_ = <<>>
  /\ Len(thr[1].res) = 1 /\ Len(thr[2].res) = 1
  /\ Cardinality(Owned(1) \cup Owned(2)) = 1

----------------------------------------------------------------------------
(* The functions of util.h.                                                *)

\* C16: hex_to_uint(c) is 256 for every byte that is not a hex digit, and
\* the value of the digit otherwise: '0'-'9' give 0..9, 'A'-'F' and 'a'-'f'
\* give 10..15.
C16_HexToUint ==
  (util.fn = "hex" /\ util.done)
  => LET c == util.ch
         v == util.n
     IN  /\ ~is_hex_digit(c) => v = 256
         /\ is_hex_digit(c) => v \in 0..15
         /\ (48 <= c /\ c <= 57) => v = c - 48
         /\ (65 <= c /\ c <= 70) => v = c - 65 + 10
         /\ (97 <= c /\ c <= 102) => v = c - 97 + 10

\* hex_to_uint('f') = 15
C16_Witness ==
  /\ util.fn = "hex"
  /\ util.done
  /\ util.ch = 102
  /\ util.n = 15

\* The chars of r that are copied as they are.
Copied(r) == {i \in 1..Len(r) : r[i] # 37 /\ in_token(r[i])}

\* C17: percent_encode_tokenlen(r) is the number of bytes
\* percent_encode_token(r, out) writes: one for each token character other
\* than '%', three for every other character.
C17_EncodeLength ==
  (util.fn = "encode" /\ util.done)
  => /\ util.n = Len(util.out)
     /\ Len(util.out) =
          Cardinality(Copied(util.str))
          + 3 * (Len(util.str) - Cardinality(Copied(util.str)))

\* "%a " is encoded in 7 bytes
C17_Witness ==
  /\ util.fn = "encode"
  /\ util.done
  /\ util.str = <<37, 97, 32>>
  /\ util.n = 7
  /\ util.out = <<37, 50, 53, 97, 37, 50, 48>>

RECURSIVE ParseDec(_)
\* The number a string of decimal digits denotes.
ParseDec(d) ==
  IF d = <<>> THEN 0 ELSE 10 * ParseDec(SubSeq(d, 1, Len(d) - 1)) + (d[Len(d)] - 48)

\* d is the decimal notation of n.
IsDecimalOf(d, n) ==
  /\ Len(d) >= 1
  /\ \A i \in 1..Len(d) : is_digit(d[i])
  /\ Len(d) > 1 => d[1] # 48
  /\ ParseDec(d) = n

\* C18: make_http_hostport(host, port) is "host:port", as make_hostport
\* gives it, when port is neither 80 nor 443, and the host alone when port
\* is 80 or 443; a numeric IPv6 host is enclosed in "[" and "]" in both
\* cases.
C18_HttpHostport ==
  (util.fn = "hostport" /\ util.done)
  => LET host == util.str
         port == util.port
         out == util.out
         h == IF ipv6_numeric_addr(host) THEN <<91>> \o host \o <<93>>
              ELSE host
     IN  IF port \notin {80, 443}
         THEN /\ out = util.aux
              /\ Len(out) >= Len(h) + 2
              /\ SubSeq(out, 1, Len(h)) = h
              /\ out[Len(h) + 1] = 58
              /\ IsDecimalOf(SubSeq(out, Len(h) + 2, Len(out)), port)
         ELSE out = h

\* make_http_hostport("::1", 443) is "[::1]"
C18_Witness ==
  /\ util.fn = "hostport"
  /\ util.done
  /\ util.port = 443
  /\ util.str = <<58, 58, 49>>
  /\ util.out = <<91, 58, 58, 49, 93>>

----------------------------------------------------------------------------

\* C21: remove(c) on a member c changes nothing but c: the membership
\* afterwards is the membership before without c, every other member is
\* still pooled and not destroyed, and the caller's handles are untouched.
C21_RemoveFrame ==
  (/\ Last >= 1
   /\ hist[Last].op = "remove"
   /\ hist[Last].arg \in Range(hist[Last].pre))
  => /\ Range(pool_) = Range(hist[Last].pre) \ {hist[Last].arg}
     /\ Len(pool_) = Len(hist[Last].pre) - 1
     /\ \A c \in Conn : Count(pool_, c) <= Count(hist[Last].pre, c)
     /\ \A c \in Conn \ {hist[Last].arg} : destroys[c] = hist[Last].dpre[c]
     /\ held = hist[Last].own

\* A member is removed from a pool of three; the two others stay pooled and
\* live.
C21_Witness ==
  /\ Last >= 1
  /\ hist[Last].op = "remove"
  /\ hist[Last].arg \in Range(hist[Last].pre)
  /\ Len(hist[Last].pre) >= 3
  /\ destroys[hist[Last].arg] = 1
  /\ \A c \in Range(pool_) : destroys[c] = 0
  /\ Len(pool_) >= 2

====
